---- MODULE Spec2Model ----
(***************************************************************************)
(* Model of the arithmetization layer of starkra: src/code/Attestation.py  *)
(* (trace builder and constraint generator, neighbor-list encoding) with   *)
(* the loaders of src/code/main.py, and the digest encoding of             *)
(* src/code/attestation_olc.py (prove and its transition constraints).     *)
(*                                                                         *)
(* Field elements are modelled by integers.  Field.main() is a prime field *)
(* whose modulus is far above every value that occurs here; in a prime     *)
(* field a product is zero iff a factor is zero, and the same holds in the *)
(* integers, so "evaluates to the field's zero" and "the integer value is  *)
(* 0" coincide for the node ids, flags and nonce of the model.             *)
(*                                                                         *)
(* Python lists are 0-based, TLA+ sequences 1-based: register j of a row   *)
(* is row[j+1] (Reg), row i of a trace is t[i+1] (Row).                    *)
(***************************************************************************)
EXTENDS Integers, Sequences, FiniteSets, Bags, TLC

VARIABLES
    cfg,              \* the CFG object shared by the caller and the Attestation (self.cfg)
    declared,         \* the CFG as load_cfg returned it (history variable, never written)
    execution_path,   \* what load_trace_from_file returned: [start, end, path]
    max_adjacency,    \* self.max_adjacency
    num_registers,    \* self.num_registers
    num_cycles,       \* self.num_cycles
    start,            \* self.start
    end,              \* self.end
    nonce,            \* self.nonce
    execution,        \* self.execution (unset before the first trace call; <<>> here)
    state,            \* the caller's `state`: the table the last successful trace returned
    stacks,           \* history: the shadow stack after each step of the last trace call
    raised,           \* how the last trace call ended: "none", "KeyError", "IndexError"
    op,               \* the last operation: "init", "new", "trace", or "retrace" for a
                      \* trace call made after an earlier call returned a table; "prove"
                      \* for a call of the digest encoding's prove
    olc_registers,    \* attestation_olc: self.registers
    olc_cycle_num,    \* attestation_olc: self.cycle_num
    olc_start,        \* attestation_olc: self.start
    olc_end,          \* attestation_olc: self.end
    olc_state,        \* the table the last prove call of attestation_olc returned
    olc_raised        \* how the last prove call ended: "none" or "IndexError"

olc_vars == <<olc_registers, olc_cycle_num, olc_start, olc_end, olc_state, olc_raised>>

vars == <<cfg, declared, execution_path, max_adjacency, num_registers, num_cycles,
          start, end, nonce, execution, state, stacks, raised, op, olc_vars>>

\* Longest execution path (number of steps, the start step included) that is enumerated.
MaxSteps == 4

\* Longest execution path handed to prove of the digest encoding.
MaxOlcSteps == 3

\* The nonce of a run: one_h = FieldElement(1254, Field.main()).
NONCE == 1254

zeros(n) == [k \in 1..n |-> 0]

Range(s) == {s[k] : k \in 1..Len(s)}

Reg(row, j) == row[j + 1]

Row(t, i) == t[i + 1]

-----------------------------------------------------------------------------
(* Inputs: CFG files and path files.                                       *)

\* cfg = {0: [1, 2], 1: [3], 2: [4], 3: [5], 4: [], 5:[]}, the example of cfg.py.
ExampleCfg ==
    [n \in 0..5 |-> CASE n = 0 -> <<1, 2>>
                      [] n = 1 -> <<3>>
                      [] n = 2 -> <<4>>
                      [] n = 3 -> <<5>>
                      [] OTHER -> <<>>]

\* Two-node graphs: no edge at all; a cycle; a duplicated edge; self loops with one
\* short successor list; a successor that has no line of its own in the CFG file.
SmallCfgs ==
    { [n \in 0..1 |-> <<>>],
      [n \in 0..1 |-> IF n = 0 THEN <<1>> ELSE <<0>>],
      [n \in 0..1 |-> IF n = 0 THEN <<1, 1>> ELSE <<>>],
      [n \in 0..1 |-> IF n = 0 THEN <<0, 1>> ELSE <<1>>],
      [n \in {0} |-> <<1>>] }

\* Every node id a CFG mentions, as a source or as a destination.
Mentioned(c) == DOMAIN c \cup UNION {Range(c[n]) : n \in DOMAIN c}

\* The lines of a path file after the header: "jump <n>", "call <n> <return>", "ret <n>".
Lines(nodes) ==
    [op : {"jmp", "ret"}, n : nodes, r : {0}] \cup [op : {"call"}, n : nodes, r : nodes]

RECURSIVE LineSeqs(_, _)
LineSeqs(nodes, k) ==
    IF k = 0 THEN {<<>>}
    ELSE LET shorter == LineSeqs(nodes, k - 1)
         IN shorter \cup {Append(s, l) : s \in {t \in shorter : Len(t) = k - 1}, l \in Lines(nodes)}

PathFiles(nodes) ==
    [initial_node : nodes, final_node : nodes, lines : LineSeqs(nodes, MaxSteps - 1)]

\* load_trace_from_file: the header line gives start, end and the start step; every
\* other line appends one step.
load_step(l) ==
    IF l.op = "call" THEN [type |-> "call", dest |-> l.n, return |-> l.r]
    ELSE IF l.op = "ret" THEN [type |-> "ret", dest |-> l.n, return |-> l.n]
    ELSE [type |-> "jmp", dest |-> l.n, return |-> l.n]

load_trace_from_file(f) ==
    [start |-> f.initial_node,
     end   |-> f.final_node,
     path  |-> <<[type |-> "start", dest |-> f.initial_node, return |-> f.initial_node]>>
               \o [k \in 1..Len(f.lines) |-> load_step(f.lines[k])]]

\* The path files of the example: 0 -> 1 -> 3 -> 5 by jumps; the call/return path
\* 0 -call(return 5)-> 2 -jmp-> 4 -ret-> 5; and the same with return target 6.
ExampleFiles ==
    { [initial_node |-> 0, final_node |-> 5,
       lines |-> <<[op |-> "jmp", n |-> 1, r |-> 0], [op |-> "jmp", n |-> 3, r |-> 0],
                   [op |-> "jmp", n |-> 5, r |-> 0]>>],
      [initial_node |-> 0, final_node |-> 5,
       lines |-> <<[op |-> "call", n |-> 2, r |-> 5], [op |-> "jmp", n |-> 4, r |-> 0],
                   [op |-> "ret", n |-> 5, r |-> 0]>>],
      [initial_node |-> 0, final_node |-> 5,
       lines |-> <<[op |-> "call", n |-> 2, r |-> 6], [op |-> "jmp", n |-> 4, r |-> 0],
                   [op |-> "ret", n |-> 5, r |-> 0]>>] }

\* A caller may also hand trace an execution with no step at all.
EmptyExecution == [start |-> 0, end |-> 0, path |-> <<>>]

Executions(c) ==
    IF c = ExampleCfg
    THEN {load_trace_from_file(f) : f \in ExampleFiles}
    ELSE {load_trace_from_file(f) : f \in PathFiles(Mentioned(c))} \cup {EmptyExecution}

-----------------------------------------------------------------------------
(* Attestation.__init__ and the CFG helpers.                               *)

SeqMax(S) == IF S = {} THEN 0 ELSE CHOOSE m \in S : \A x \in S : x <= m

calculate_max_adjacency(c) == SeqMax({Len(c[n]) : n \in DOMAIN c} \cup {0})

register_count(m) == 7 + m

\* Mutant of padded_cfg: the padding is max_adjacency zeros, whatever the list holds.
padded_cfg_overlong(c, node, m) ==
    IF Len(c[node]) < m
    THEN [c EXCEPT ![node] = c[node] \o zeros(m)]
    ELSE c

\* neighbours += [0] * (max_adjacency - len(neighbours)) extends the list object that
\* the CFG holds for the node: the CFG after the call.
padded_cfg(c, node, m) ==
    IF Len(c[node]) < m
    THEN [c EXCEPT ![node] = c[node] \o zeros(m - Len(c[node]))]
    ELSE c

\* Mutant of get_padded_neighbours: the zeros are put in front of the successors.
get_padded_neighbours_front(c, node, m) ==
    LET neighbours == c[node]
    IN  SubSeq(zeros(IF Len(neighbours) < m THEN m - Len(neighbours) ELSE 0) \o neighbours,
               1, m)

\* The value get_padded_neighbours returns: neighbours[:max_adjacency].
get_padded_neighbours(c, node, m) ==
    LET neighbours == padded_cfg(c, node, m)[node]
    IN  SubSeq(neighbours, 1, IF Len(neighbours) < m THEN Len(neighbours) ELSE m)

-----------------------------------------------------------------------------
(* Attestation.trace.                                                      *)

\* call_stack_v before the step is looked at: zero for an empty stack, else stack[0].
stack_top(stack) == IF Len(stack) = 0 THEN 0 ELSE stack[1]

\* Mutant of shadow_step: a call pushes, but its row keeps the top from before the push.
shadow_step_stale_top(step, stack, current_node) ==
    IF step.type = "call"
    THEN [stack |-> <<step.return>> \o stack, call_stack_v |-> stack_top(stack),
          call |-> 1, ret |-> 0]
    ELSE IF step.type = "ret"
    THEN IF Len(stack) = 0
         THEN [stack |-> stack, call_stack_v |-> 0, call |-> 0, ret |-> 1]
         ELSE IF stack[1] = current_node
         THEN [stack |-> Tail(stack), call_stack_v |-> stack_top(Tail(stack)),
               call |-> 0, ret |-> 1]
         ELSE [stack |-> stack, call_stack_v |-> stack_top(stack), call |-> 0, ret |-> 0]
    ELSE [stack |-> stack, call_stack_v |-> stack_top(stack), call |-> 0, ret |-> 0]

\* Mutant of shadow_step: a return pops a non-empty stack whatever its top is.
shadow_step_pops_mismatch(step, stack, current_node) ==
    IF step.type = "call"
    THEN [stack |-> <<step.return>> \o stack, call_stack_v |-> step.return,
          call |-> 1, ret |-> 0]
    ELSE IF step.type = "ret"
    THEN IF Len(stack) = 0
         THEN [stack |-> stack, call_stack_v |-> 0, call |-> 0, ret |-> 1]
         ELSE IF stack[1] = current_node
         THEN [stack |-> Tail(stack), call_stack_v |-> stack_top(Tail(stack)),
               call |-> 0, ret |-> 1]
         ELSE [stack |-> Tail(stack), call_stack_v |-> stack_top(Tail(stack)),
               call |-> 0, ret |-> 0]
    ELSE [stack |-> stack, call_stack_v |-> stack_top(stack), call |-> 0, ret |-> 0]

\* Mutant of shadow_step: a call pushes the node it goes to, not its return target.
shadow_step_pushes_dest(step, stack, current_node) ==
    IF step.type = "call"
    THEN [stack |-> <<step.dest>> \o stack, call_stack_v |-> step.dest,
          call |-> 1, ret |-> 0]
    ELSE IF step.type = "ret"
    THEN IF Len(stack) = 0
         THEN [stack |-> stack, call_stack_v |-> 0, call |-> 0, ret |-> 1]
         ELSE IF stack[1] = current_node
         THEN [stack |-> Tail(stack), call_stack_v |-> stack_top(Tail(stack)),
               call |-> 0, ret |-> 1]
         ELSE [stack |-> stack, call_stack_v |-> stack_top(stack), call |-> 0, ret |-> 0]
    ELSE [stack |-> stack, call_stack_v |-> stack_top(stack), call |-> 0, ret |-> 0]

\* The shadow stack part of one loop iteration (a step that is not the last one):
\* the stack after the step and the call_stack_v, call and ret put in its row.
shadow_step(step, stack, current_node) ==
    IF step.type = "call"
    THEN [stack |-> <<step.return>> \o stack, call_stack_v |-> step.return,
          call |-> 1, ret |-> 0]
    ELSE IF step.type = "ret"
    THEN IF Len(stack) = 0
         THEN [stack |-> stack, call_stack_v |-> 0, call |-> 0, ret |-> 1]
         ELSE IF stack[1] = current_node
         THEN [stack |-> Tail(stack), call_stack_v |-> stack_top(Tail(stack)),
               call |-> 0, ret |-> 1]
         ELSE [stack |-> stack, call_stack_v |-> stack_top(stack), call |-> 0, ret |-> 0]
    ELSE [stack |-> stack, call_stack_v |-> stack_top(stack), call |-> 0, ret |-> 0]

\* Mutant of last_shadow_step: a matched return pops, but its row keeps the popped top.
last_shadow_step_keeps_top(step, stack, current_node) ==
    IF step.type = "call"
    THEN [stack |-> <<step.return>> \o stack, call_stack_v |-> step.return,
          call |-> 0, ret |-> 0]
    ELSE IF step.type = "ret"
    THEN IF Len(stack) = 0
         THEN [stack |-> stack, call_stack_v |-> 0, call |-> 0, ret |-> 1]
         ELSE IF stack[1] = current_node
         THEN [stack |-> Tail(stack), call_stack_v |-> stack_top(stack),
               call |-> 0, ret |-> 0]
         ELSE [stack |-> stack, call_stack_v |-> stack_top(stack), call |-> 0, ret |-> 0]
    ELSE [stack |-> stack, call_stack_v |-> stack_top(stack), call |-> 0, ret |-> 0]

\* Mutant of last_shadow_step: a return on an empty stack sets no flag either.
last_shadow_step_unflagged(step, stack, current_node) ==
    IF step.type = "call"
    THEN [stack |-> <<step.return>> \o stack, call_stack_v |-> step.return,
          call |-> 0, ret |-> 0]
    ELSE IF step.type = "ret"
    THEN IF Len(stack) = 0
         THEN [stack |-> stack, call_stack_v |-> 0, call |-> 0, ret |-> 0]
         ELSE IF stack[1] = current_node
         THEN [stack |-> Tail(stack), call_stack_v |-> stack_top(Tail(stack)),
               call |-> 0, ret |-> 0]
         ELSE [stack |-> stack, call_stack_v |-> stack_top(stack), call |-> 0, ret |-> 0]
    ELSE [stack |-> stack, call_stack_v |-> stack_top(stack), call |-> 0, ret |-> 0]

\* The same for the last step, after the loop: call and ret still hold the zero they
\* were reset to; only a return on an empty stack sets ret.
last_shadow_step(step, stack, current_node) ==
    IF step.type = "call"
    THEN [stack |-> <<step.return>> \o stack, call_stack_v |-> step.return,
          call |-> 0, ret |-> 0]
    ELSE IF step.type = "ret"
    THEN IF Len(stack) = 0
         THEN [stack |-> stack, call_stack_v |-> 0, call |-> 0, ret |-> 1]
         ELSE IF stack[1] = current_node
         THEN [stack |-> Tail(stack), call_stack_v |-> stack_top(Tail(stack)),
               call |-> 0, ret |-> 0]
         ELSE [stack |-> stack, call_stack_v |-> stack_top(stack), call |-> 0, ret |-> 0]
    ELSE [stack |-> stack, call_stack_v |-> stack_top(stack), call |-> 0, ret |-> 0]

\* Mutant of first_row: the last register is zero too.
first_row_unflagged(m) == <<0, 0, 0>> \o zeros(m) \o <<0, 0, 0, 0>>

\* "Create first state": three zeros, max_adjacency zeros, three zeros and a one.
first_row(m) == <<0, 0, 0>> \o zeros(m) \o <<0, 0, 0, 1>>

\* Mutant of loop_row: current and next change places.
loop_row_swapped(nonce_, current_node, next_node, neighbours, sh, end_) ==
    <<nonce_, next_node, current_node>> \o neighbours
        \o <<sh.call_stack_v, sh.call, sh.ret, 0, end_>>

\* Mutant of loop_row: the initial register comes after the end register.
loop_row_end_before_initial(nonce_, current_node, next_node, neighbours, sh, end_) ==
    <<nonce_, current_node, next_node>> \o neighbours
        \o <<sh.call_stack_v, sh.call, sh.ret, end_, 0>>

\* A row of the loop: [nonce, current, next] + neighbours + [call_stack_v, call, ret,
\* initial, end], where initial is the zero of line 44 and end is trace's parameter.
loop_row(nonce_, current_node, next_node, neighbours, sh, end_) ==
    <<nonce_, current_node, next_node>> \o neighbours
        \o <<sh.call_stack_v, sh.call, sh.ret, 0, end_>>

\* "Add the last state": next is zero, the neighbours are zeros, no end register.
last_row(nonce_, current_node, m, sh) ==
    <<nonce_, current_node, 0>> \o zeros(m) \o <<sh.call_stack_v, sh.call, sh.ret, 0>>

\* for i in range(len(execution)-1), from iteration i on (i is 1-based here).  The
\* accumulator holds the locals state and stack, the CFG as padded so far, the stack
\* after each step, and the exception that ended the loop.
RECURSIVE trace_loop(_, _, _, _, _, _)
trace_loop(i, acc, nonce_, end_, ex, m) ==
    IF i > Len(ex) - 1 THEN acc
    ELSE LET current_node == ex[i].dest
             next_node    == ex[i + 1].dest
         IN  IF current_node \notin DOMAIN acc.cfg
             THEN [acc EXCEPT !.raised = "KeyError"]
             ELSE LET neighbours == get_padded_neighbours(acc.cfg, current_node, m)
                      sh         == shadow_step(ex[i], acc.stack, current_node)
                  IN  trace_loop(i + 1,
                          [state  |-> Append(acc.state,
                                         loop_row(nonce_, current_node, next_node,
                                                  neighbours, sh, end_)),
                           stack  |-> sh.stack,
                           cfg    |-> padded_cfg(acc.cfg, current_node, m),
                           stacks |-> Append(acc.stacks, sh.stack),
                           raised |-> "none"],
                          nonce_, end_, ex, m)

\* The whole of trace: the loop, then the last row.  execution[-1] of an empty
\* execution raises IndexError; a node the CFG has no entry for raises KeyError.
trace(nonce_, start_, end_, ex, c, m) ==
    LET acc0 == [state |-> <<first_row(m)>>, stack |-> <<>>, cfg |-> c,
                 stacks |-> <<>>, raised |-> "none"]
        acc  == trace_loop(1, acc0, nonce_, end_, ex, m)
    IN  IF acc.raised # "none" THEN acc
        ELSE IF Len(ex) = 0 THEN [acc EXCEPT !.raised = "IndexError"]
        ELSE LET current_node == ex[Len(ex)].dest
                 sh == last_shadow_step(ex[Len(ex)], acc.stack, current_node)
             IN  [acc EXCEPT !.state  = Append(acc.state, last_row(nonce_, current_node, m, sh)),
                             !.stack  = sh.stack,
                             !.stacks = Append(acc.stacks, sh.stack)]

-----------------------------------------------------------------------------
(* Attestation.boundary_constraints and Attestation.transition_constraints *)
(* read the object and change nothing: they are operators.                 *)

\* Mutant of boundary_constraints: the end node is pinned at row num_cycles.
boundary_constraints_past_end(nonce_, start_, end_, registers, cycles) ==
    [k \in 1..(registers - 1) |-> <<0, k - 1, 0>>]
        \o << <<0, registers - 1, 1>>,
              <<1, 0, nonce_>>,
              <<1, 1, start_>>,
              <<cycles, 1, end_>> >>

\* The list of (position, register_index, value) triples.
boundary_constraints(nonce_, start_, end_, registers, cycles) ==
    [k \in 1..(registers - 1) |-> <<0, k - 1, 0>>]
        \o << <<0, registers - 1, 1>>,
              <<1, 0, nonce_>>,
              <<1, 1, start_>>,
              <<cycles - 1, 1, end_>> >>

\* acc = 1; for neighbour in neighbours: acc *= (neighbour - next_state)
RECURSIVE get_valid_transition_polynomial(_, _)
get_valid_transition_polynomial(next_state, neighbours) ==
    IF neighbours = <<>> THEN 1
    ELSE (Head(neighbours) - next_state)
            * get_valid_transition_polynomial(next_state, Tail(neighbours))

\* The three polynomials of the AIR at the point (previous row, next row).  Variable
\* 1+j is register j of the previous row and variable 1+registers+j register j of the
\* next row, for j < registers; previous_state[-1] is register registers-1 and
\* next_state[-2] register registers-2.  A row that is longer than `registers` (the
\* rows of the loop) contributes its first `registers` entries, as the engine
\* interpolates range(num_registers) columns of the table.
link_constraint(prev, next, registers) ==
    (Reg(prev, 2) - Reg(next, 1)) * (1 - Reg(prev, registers - 1))

adjacency_constraint(prev, registers, m) ==
    get_valid_transition_polynomial(Reg(prev, 2), SubSeq(prev, 4, 3 + m))
        * (1 - Reg(prev, registers - 1))

\* Mutant of stack_constraint: the products are taken with next_state[-3], the call
\* flag, instead of next_state[-2].
stack_constraint_on_call(prev, next, registers, m) ==
    Reg(prev, 3 + m) * Reg(next, registers - 3) - Reg(prev, 2) * Reg(next, registers - 3)

stack_constraint(prev, next, registers, m) ==
    Reg(prev, 3 + m) * Reg(next, registers - 2) - Reg(prev, 2) * Reg(next, registers - 2)

transition_constraints(prev, next, registers, m) ==
    << link_constraint(prev, next, registers),
       adjacency_constraint(prev, registers, m),
       stack_constraint(prev, next, registers, m) >>

\* How transition_constraints ends for an object with these fields.  It checks nothing
\* about them; the only failure is an index past the end of previous_state (of
\* num_registers variables): previous_state[2] and previous_state[call_stack_index].
transition_constraints_raised(registers, m) ==
    IF registers < 3 \/ registers < 3 + m + 1 THEN "IndexError" ELSE "none"

-----------------------------------------------------------------------------
(* The same three polynomials as polynomials.  An MPolynomial is a function *)
(* from monomials to non-zero coefficients; a monomial is the bag of its    *)
(* variables (variable i to the power e is e copies of i).                  *)

RECURSIVE SumOver(_, _)
SumOver(S, f) ==
    IF S = {} THEN 0
    ELSE LET x == CHOOSE y \in S : TRUE IN f[x] + SumOver(S \ {x}, f)

\* MPolynomial.constant(c) and the i-th element of MPolynomial.variables(n, field).
MPolynomial_constant(c) == [mono \in (IF c = 0 THEN {} ELSE {EmptyBag}) |-> c]

MPolynomial_variable(i) == [mono \in {SetToBag({i})} |-> 1]

\* p + q, p - q and p * q.
MPolynomial_add(p, q) ==
    LET coefficient(mono) == (IF mono \in DOMAIN p THEN p[mono] ELSE 0)
                                + (IF mono \in DOMAIN q THEN q[mono] ELSE 0)
    IN  [mono \in {x \in DOMAIN p \cup DOMAIN q : coefficient(x) # 0} |-> coefficient(mono)]

MPolynomial_sub(p, q) == MPolynomial_add(p, [mono \in DOMAIN q |-> 0 - q[mono]])

MPolynomial_mul(p, q) ==
    LET pairs == (DOMAIN p) \X (DOMAIN q)
        coefficient(mono) ==
            SumOver({pr \in pairs : pr[1] (+) pr[2] = mono},
                    [pr \in pairs |-> p[pr[1]] * q[pr[2]]])
        monos == {pr[1] (+) pr[2] : pr \in pairs}
    IN  [mono \in {x \in monos : coefficient(x) # 0} |-> coefficient(mono)]

\* The largest number of variables, counted with their powers, in one monomial; -1 for
\* the zero polynomial.
total_degree(p) == SeqMax({BagCardinality(mono) : mono \in DOMAIN p} \cup {0 - 1})

\* previous_state[j] is variables[1 + j], next_state[j] is variables[1 + registers + j].
previous_state(j) == MPolynomial_variable(1 + j)

next_state(j, registers) == MPolynomial_variable(1 + registers + j)

\* initial_pol = MPolynomial.constant(one) - previous_state[-1]
initial_pol(registers) ==
    MPolynomial_sub(MPolynomial_constant(1), previous_state(registers - 1))

\* get_valid_transition_polynomial on polynomials: acc *= (neighbour - next_state) for
\* the neighbour variables previous_state[3 + j], j from `j` to m - 1.
RECURSIVE valid_next_state(_, _)
valid_next_state(j, m) ==
    IF j >= m THEN MPolynomial_constant(1)
    ELSE MPolynomial_mul(MPolynomial_sub(previous_state(3 + j), previous_state(2)),
                         valid_next_state(j + 1, m))

\* air: the list transition_constraints returns.
air(registers, m) ==
    << MPolynomial_mul(MPolynomial_sub(previous_state(2), next_state(1, registers)),
                       initial_pol(registers)),
       MPolynomial_mul(valid_next_state(0, m), initial_pol(registers)),
       MPolynomial_sub(
           MPolynomial_mul(previous_state(3 + m), next_state(registers - 2, registers)),
           MPolynomial_mul(previous_state(2), next_state(registers - 2, registers))) >>

\* FastStark(..., transition_constraints_degree=a.max_adjacency+1)
transition_constraints_degree(m) == m + 1

-----------------------------------------------------------------------------
(* attestation_olc.py: the digest encoding.  A row is [nonce, curr, next,   *)
(* hash_transition, call_stack_v, valid, end, hash_src, hash_dest, call,    *)
(* ret].                                                                    *)

\* self.registers = 11
OlcRegisters == 11

\* random_len = random.randint(0, 10)
FalseRowsMax == 10

\* The node of the rows prove adds for a false path: FieldElement(800, ...).
FalseNode == 800

\* RescuePrime.hash of one field element.  The hash is an external collaborator; it is
\* modelled by a cube map, which is injective on the node ids of the model and gives
\* different sums for different unordered pairs of them.
rp_hash(x) == ((((x + 3) * (x + 3)) % 65521) * (x + 3)) % 65521

\* Mutant of hash_trans: the source digest counts twice.
hash_trans_ordered(src, dest) == 2 * rp_hash(src) + rp_hash(dest)

\* hash = rp.hash(list[0]) + rp.hash(list[1])
hash_trans(src, dest) == rp_hash(src) + rp_hash(dest)

\* The digest of every edge (src, dest) of the CFG.
get_list_hash_transitions(c) ==
    UNION {{hash_trans(src, c[src][k]) : k \in 1..Len(c[src])} : src \in DOMAIN c}

olc_row(nonce_, curr_node, next_node, sh) ==
    <<nonce_, curr_node, next_node, hash_trans(curr_node, next_node), sh.call_stack_v,
      1, 0, rp_hash(curr_node), rp_hash(next_node), sh.call, sh.ret>>

\* for i in range(len(transitions)-1), from iteration i on (1-based).  The shadow stack
\* code of the loop is that of Attestation.trace's loop.
RECURSIVE prove_loop(_, _, _, _)
prove_loop(i, acc, nonce_, transitions) ==
    IF i > Len(transitions) - 1 THEN acc
    ELSE LET curr_node == transitions[i].dest
             next_node == transitions[i + 1].dest
             sh        == shadow_step(transitions[i], acc.stack, curr_node)
         IN  prove_loop(i + 1,
                 [state |-> Append(acc.state, olc_row(nonce_, curr_node, next_node, sh)),
                  stack |-> sh.stack],
                 nonce_, transitions)

\* A row of the false path: nonce zero, both nodes 800, valid zero.
false_row(stack) ==
    <<0, FalseNode, FalseNode, hash_trans(FalseNode, FalseNode), stack_top(stack),
      0, 0, rp_hash(FalseNode), rp_hash(FalseNode), 0, 0>>

\* prove for a path that is not None.  random_len is the value random.randint gave; the
\* false rows leave the local nonce at zero for the last row.  transitions[-1] of an
\* empty path raises IndexError.
prove(nonce_, false_path, random_len, path) ==
    LET acc   == prove_loop(1, [state |-> <<>>, stack |-> <<>>], nonce_, path.path)
        false == IF false_path THEN [k \in 1..random_len |-> false_row(acc.stack)] ELSE <<>>
        last_nonce == IF false_path /\ random_len > 0 THEN 0 ELSE nonce_
    IN  IF Len(path.path) = 0
        THEN [state |-> acc.state \o false, raised |-> "IndexError"]
        ELSE [state |-> acc.state \o false
                           \o << <<last_nonce, path.path[Len(path.path)].dest,
                                   0, 0, 0, 0, 0, 1, 0, 0, 0>> >>,
              raised |-> "none"]

\* The four polynomials of attestation_olc's transition_constraints at the point
\* (previous row, next row): i == 1, i == 3, i == 4, i == 5.
olc_transition_constraints(prev, next) ==
    << Reg(prev, 2) - Reg(next, 1),
       Reg(prev, 3) - (Reg(prev, 7) + Reg(prev, 8)),
       Reg(prev, 4) * Reg(next, 10) - Reg(prev, 2) * Reg(next, 10),
       0 - (1 - Reg(prev, 5)) >>

-----------------------------------------------------------------------------
(* The state machine.                                                      *)

\* After cfg = load_cfg(...), a = Attestation(cfg), load_trace_from_file(...).
Init ==
    /\ cfg \in SmallCfgs \cup {ExampleCfg}
    /\ declared = cfg
    /\ execution_path \in Executions(cfg)
    /\ max_adjacency = calculate_max_adjacency(cfg)
    /\ num_registers = register_count(max_adjacency)
    /\ num_cycles = 0
    /\ start = 0
    /\ end = 0
    /\ nonce = 0
    /\ execution = <<>>
    /\ state = <<>>
    /\ stacks = <<>>
    /\ raised = "none"
    /\ op = "init"
    /\ olc_registers = OlcRegisters
    /\ olc_cycle_num = 0
    /\ olc_start = 0
    /\ olc_end = 0
    /\ olc_state = <<>>
    /\ olc_raised = "none"

\* Mutant of Trace: self.num_cycles is kept up to date while the rows are built, so a
\* call that raises leaves the length of what it had built.
Trace_counts_before_raise ==
    \E r \in {trace(NONCE, execution_path.start, execution_path.end,
                   execution_path.path, cfg, max_adjacency)} :
        /\ start' = execution_path.start
        /\ end' = execution_path.end
        /\ nonce' = NONCE
        /\ execution' = execution_path.path
        /\ cfg' = r.cfg
        /\ raised' = r.raised
        /\ stacks' = r.stacks
        /\ state' = IF r.raised = "none" THEN r.state ELSE state
        /\ num_cycles' = Len(r.state)
        /\ op' = IF state = <<>> THEN "trace" ELSE "retrace"
        /\ UNCHANGED <<declared, execution_path, max_adjacency, num_registers, olc_vars>>

\* state = a.trace(one_h, execution["start"], execution["end"], execution["path"])
\* An exception leaves the caller's state and self.num_cycles as they were.
Trace ==
    \E r \in {trace(NONCE, execution_path.start, execution_path.end,
                   execution_path.path, cfg, max_adjacency)} :
        /\ start' = execution_path.start
        /\ end' = execution_path.end
        /\ nonce' = NONCE
        /\ execution' = execution_path.path
        /\ cfg' = r.cfg
        /\ raised' = r.raised
        /\ stacks' = r.stacks
        /\ state' = IF r.raised = "none" THEN r.state ELSE state
        /\ num_cycles' = IF r.raised = "none" THEN Len(r.state) ELSE num_cycles
        /\ op' = IF state = <<>> THEN "trace" ELSE "retrace"
        /\ UNCHANGED <<declared, execution_path, max_adjacency, num_registers, olc_vars>>

\* attestation_olc: state = a.prove(nonce, false_path, proof, path=execution).  The
\* fields are assigned before the rows are built; cycle_num only when prove returns.
OlcProve ==
    \E false_path \in BOOLEAN, random_len \in 0..FalseRowsMax :
        /\ false_path \/ random_len = 0
        /\ \E r \in {prove(NONCE, false_path, random_len, execution_path)} :
               /\ olc_registers' = OlcRegisters
               /\ olc_start' = execution_path.start
               /\ olc_end' = execution_path.end
               /\ olc_raised' = r.raised
               /\ olc_state' = IF r.raised = "none" THEN r.state ELSE olc_state
               /\ olc_cycle_num' = IF r.raised = "none" THEN Len(r.state) ELSE olc_cycle_num
               /\ op' = "prove"
               /\ UNCHANGED <<cfg, declared, execution_path, max_adjacency, num_registers,
                              num_cycles, start, end, nonce, execution, state, stacks, raised>>

\* a = Attestation(cfg) again, on the CFG object as it is now.
NewAttestation ==
    /\ max_adjacency' = calculate_max_adjacency(cfg)
    /\ num_registers' = register_count(calculate_max_adjacency(cfg))
    /\ num_cycles' = 0
    /\ start' = 0
    /\ end' = 0
    /\ nonce' = 0
    /\ execution' = <<>>
    /\ op' = "new"
    /\ UNCHANGED <<cfg, declared, execution_path, state, stacks, raised, olc_vars>>

Next == Trace \/ NewAttestation

Spec == Init /\ [][Next]_vars

\* The program that uses the digest encoding: one object, prove called on it.  prove
\* never reads the CFG, so two CFGs are enough: the one-edge graph 0 -> 1 and the
\* cycle 0 -> 1 -> 0.  A call of prove has up to twelve outcomes (false_path, random_len), so
\* the paths are one step shorter than those of trace.
OlcCfgs == {[n \in {0} |-> <<1>>], [n \in 0..1 |-> IF n = 0 THEN <<1>> ELSE <<0>>]}

InitOlc == Init /\ cfg \in OlcCfgs /\ Len(execution_path.path) <= MaxOlcSteps

NextOlc == OlcProve

SpecOlc == InitOlc /\ [][NextOlc]_vars

-----------------------------------------------------------------------------
(* Vocabulary of the properties.                                           *)

\* The last operation was a trace call and it returned a table.
Returned == op \in {"trace", "retrace"} /\ raised = "none"

NonceReg == 0
CurrentReg == 1
NextReg == 2
CallStackReg == 3 + max_adjacency
CallFlagReg == 3 + max_adjacency + 1
ReturnFlagReg == 3 + max_adjacency + 2
InitialReg == 3 + max_adjacency + 3
TerminalReg == 3 + max_adjacency + 4

\* Row `row` with register j replaced by v.
SetReg(row, j, v) == [row EXCEPT ![j + 1] = v]

\* The declared successors of a node (none for a node the CFG does not define).
Successors(n) == IF n \in DOMAIN declared THEN Range(declared[n]) ELSE {}

\* Values a register may be corrupted to: every node id in use, and one more.
CorruptValues == 0..(SeqMax(Mentioned(declared)) + 1)

\* The boundary constraints of the object as it is, for the arguments main passes.
Boundary == boundary_constraints(nonce, start, end, num_registers, num_cycles)

\* Table t has the cell every triple names, holding the value the triple gives.
SatisfiesBoundary(t, bc) ==
    \A k \in 1..Len(bc) :
        /\ bc[k][1] \in 0..(Len(t) - 1)
        /\ bc[k][2] \in 0..(Len(Row(t, bc[k][1])) - 1)
        /\ Reg(Row(t, bc[k][1]), bc[k][2]) = bc[k][3]

\* All three transition polynomials vanish on every consecutive row pair of t.
SatisfiesTransitions(t) ==
    \A i \in 0..(Len(t) - 2) :
        transition_constraints(Row(t, i), Row(t, i + 1), num_registers, max_adjacency)
            = <<0, 0, 0>>

\* The stack a correct call/return discipline has after the first k steps of ex:
\* a call pushes its return target, a return pops.
RECURSIVE NestingStack(_, _)
NestingStack(ex, k) ==
    IF k = 0 THEN <<>>
    ELSE LET before == NestingStack(ex, k - 1)
         IN  IF ex[k].type = "call" THEN <<ex[k].return>> \o before
             ELSE IF ex[k].type = "ret" /\ before # <<>> THEN Tail(before)
             ELSE before

\* Every return goes to the return target of the innermost pending call.
WellNested(ex) ==
    \A k \in 1..Len(ex) :
        ex[k].type = "ret" =>
            /\ NestingStack(ex, k - 1) # <<>>
            /\ Head(NestingStack(ex, k - 1)) = ex[k].dest

\* The loaded path starts with a start step at the declared start node, ends at the
\* declared end node, visits CFG nodes only and follows CFG edges only.
GenuineWalk ==
    LET ex == execution_path.path
    IN  /\ Len(ex) >= 1
        /\ ex[1].type = "start"
        /\ ex[1].dest = execution_path.start
        /\ ex[Len(ex)].dest = execution_path.end
        /\ \A k \in 1..Len(ex) : ex[k].dest \in DOMAIN declared
        /\ \A k \in 1..(Len(ex) - 1) : ex[k + 1].dest \in Successors(ex[k].dest)

ValidPath == GenuineWalk /\ WellNested(execution_path.path)

-----------------------------------------------------------------------------
(* C1..C10.                                                                *)

\* C1: round-trip soundness.  For a genuine walk over CFG edges with correctly nested
\* calls and returns, the table trace returned satisfies every boundary constraint and
\* makes the three transition polynomials zero on every consecutive row pair.
C1_RoundTripSoundness ==
    (Returned /\ ValidPath) =>
        /\ SatisfiesBoundary(state, Boundary)
        /\ SatisfiesTransitions(state)

\* A valid path with a return in the middle (its row carries return_flag = 1, so the
\* stack-consistency polynomial is not vacuous) and a padded neighbour list.
C1_Witness ==
    /\ Returned /\ ValidPath
    /\ Len(state) >= 4
    /\ \E i \in 1..(Len(state) - 1) : Reg(Row(state, i), ReturnFlagReg) = 1
    /\ cfg # declared

\* C2: adjacency rejection.  Replacing the next register of a real, non-last row by
\* any value outside the declared successors of the row's current node makes the
\* adjacency polynomial non-zero on the pair that starts at the row.
C2_AdjacencyRejection ==
    Returned =>
        \A i \in 1..(Len(state) - 2) : \A v \in CorruptValues :
            v \notin Successors(Reg(Row(state, i), CurrentReg)) =>
                adjacency_constraint(SetReg(Row(state, i), NextReg, v),
                                     num_registers, max_adjacency) # 0

\* C3: stack rejection.  A return step whose destination differs from the return
\* target of its matching call makes the stack-consistency polynomial non-zero on the
\* pair that ends at the return's row.
C3_StackRejection ==
    Returned =>
        \A k \in 2..Len(execution) :
            ( /\ execution[k].type = "ret"
              /\ NestingStack(execution, k - 1) # <<>>
              /\ Head(NestingStack(execution, k - 1)) # execution[k].dest )
            => stack_constraint(Row(state, k - 1), Row(state, k),
                                num_registers, max_adjacency) # 0

\* The tables a prover can hand in after a build: the table itself and every table
\* that differs from it in one register of one row.
Tables(t) ==
    {t} \cup { [t EXCEPT ![i + 1] = SetReg(Row(t, i), j, v)] :
                 i \in 0..(Len(t) - 1), j \in 0..(num_registers - 1), v \in CorruptValues }

\* The current registers of rows 1..last start at start, end at end, and each
\* consecutive pair is a declared edge.
CurrentsWalk(t) ==
    /\ Len(t) >= 2
    /\ Reg(Row(t, 1), CurrentReg) = start
    /\ Reg(Row(t, Len(t) - 1), CurrentReg) = end
    /\ \A i \in 1..(Len(t) - 2) :
          Reg(Row(t, i + 1), CurrentReg) \in Successors(Reg(Row(t, i), CurrentReg))

\* C4: soundness of the AIR.  Every table that satisfies the boundary constraints and
\* the transition constraints carries, in its current registers, a walk of the CFG
\* from start to end.
C4_AirSoundness ==
    Returned =>
        \A t \in Tables(state) :
            (SatisfiesBoundary(t, Boundary) /\ SatisfiesTransitions(t)) => CurrentsWalk(t)

\* C5: after a build of L rows, boundary_constraints(nonce, start, end) returns exactly
\* (0, i, 0) for every register i but the initial register, (0, initial, 1),
\* (1, nonce register, nonce), (1, current register, start), (L-1, current register, end).
C5_BoundaryTriples ==
    Returned =>
        \A n \in {0, NONCE} : \A s \in CorruptValues : \A e \in CorruptValues :
            LET bc == boundary_constraints(n, s, e, num_registers, num_cycles)
            IN  /\ Range(bc) =
                      { <<0, i, 0>> : i \in (0..(num_registers - 1)) \ {InitialReg} }
                      \cup { <<0, InitialReg, 1>>, <<1, NonceReg, n>>,
                             <<1, CurrentReg, s>>, <<Len(state) - 1, CurrentReg, e>> }
                /\ Len(bc) = num_registers + 3

C5_Witness == Returned /\ Len(state) >= 3 /\ start # end

\* The call/return path of the example over the example CFG.
CallReturnScenario ==
    /\ declared = ExampleCfg
    /\ execution_path.path =
          << [type |-> "start", dest |-> 0, return |-> 0],
             [type |-> "call", dest |-> 2, return |-> 5],
             [type |-> "jmp", dest |-> 4, return |-> 4],
             [type |-> "ret", dest |-> 5, return |-> 5] >>

StackConsistent(t) ==
    \A i \in 0..(Len(t) - 2) :
        stack_constraint(Row(t, i), Row(t, i + 1), num_registers, max_adjacency) = 0

\* C6 as stated: in the call/return scenario the row of the return step has
\* call_stack_top = 5 and the stack-consistency polynomial is zero on every pair.
C6_ReturnRowTopIsFive ==
    (Returned /\ CallReturnScenario) =>
        /\ Reg(Row(state, 4), CallStackReg) = 5
        /\ StackConsistent(state)

\* C6 as amended: in the call/return scenario the row before the return step (the
\* jump to 4) has call_stack_top = 5, the row of the return step has the top left
\* after the pop, 0, and the stack-consistency polynomial is zero on every pair.
C6_ReturnRowTopAfterPop ==
    (Returned /\ CallReturnScenario) =>
        /\ Reg(Row(state, 3), CallStackReg) = 5
        /\ Reg(Row(state, 4), CallStackReg) = 0
        /\ StackConsistent(state)

C6_Witness == Returned /\ CallReturnScenario /\ Len(state) = 5

\* C7: idempotence.  A trace call with the arguments of an earlier call that returned
\* a table, on the same object or on a new one over the same CFG object, returns the
\* same table and sets the same num_cycles.
C7_Idempotence ==
    [][(op' \in {"trace", "retrace"} /\ state # <<>>) =>
          (raised' = "none" /\ state' = state /\ num_cycles' = Len(state))]_vars

\* A second build over a CFG that the first build padded.
C7_Witness == op = "retrace" /\ raised = "none" /\ cfg # declared /\ Len(state) >= 3

\* C8: every row of a returned table has num_registers registers.
C8_UniformWidth ==
    Returned => \A i \in 0..(Len(state) - 1) : Len(Row(state, i)) = num_registers

\* C9: num_registers = maxAdjacency + 8.
C9_RegisterCount == num_registers = calculate_max_adjacency(declared) + 8

\* C10: a path of n >= 1 steps gives n+1 rows and num_cycles = n+1; row 0 is the
\* prelude; row k has current = destination of step k-1 and next = destination of
\* step k (0-based steps), the last row's next being zero.
C10_RowsFollowPath ==
    Returned =>
        LET n == Len(execution)
        IN  /\ n >= 1
            /\ Len(state) = n + 1
            /\ num_cycles = n + 1
            /\ Reg(Row(state, 0), InitialReg) = 1
            /\ \A k \in 1..n :
                  /\ Reg(Row(state, k), CurrentReg) = execution[k].dest
                  /\ Reg(Row(state, k), NextReg) =
                        IF k < n THEN execution[k + 1].dest ELSE 0

C10_Witness ==
    /\ Returned
    /\ Len(state) = 5
    /\ \E k \in 1..3 : Reg(Row(state, k), CurrentReg) # Reg(Row(state, k), NextReg)

-----------------------------------------------------------------------------
(* C11..C20.                                                               *)

\* C11: for every node the CFG defines, get_padded_neighbours returns max_adjacency
\* entries: the declared successors in declared order, then zeros; and max_adjacency
\* is the largest declared out-degree (0 for a CFG without edges).
C11_PaddedNeighbours ==
    /\ \A n \in DOMAIN declared : Len(declared[n]) <= max_adjacency
    /\ max_adjacency = 0 \/ \E n \in DOMAIN declared : Len(declared[n]) = max_adjacency
    /\ \A n \in DOMAIN cfg :
          LET p == get_padded_neighbours(cfg, n, max_adjacency)
          IN  /\ Len(p) = max_adjacency
              /\ SubSeq(p, 1, Len(declared[n])) = declared[n]
              /\ \A k \in (Len(declared[n]) + 1)..max_adjacency : p[k] = 0

\* A build has padded the CFG, and some node has successors but fewer than the most.
C11_Witness ==
    /\ Returned
    /\ cfg # declared
    /\ \E n \in DOMAIN declared : 0 < Len(declared[n]) /\ Len(declared[n]) < max_adjacency

\* C12: trace returns a table only if the destination of every step, the last one
\* included, is a node the CFG defines.
C12_UnknownNodeFails ==
    Returned => \A k \in 1..Len(execution) : execution[k].dest \in DOMAIN declared

\* C13: trace of a path without steps raises, returns no table and leaves num_cycles
\* as it was.
C13_EmptyPathFails ==
    [][(op' \in {"trace", "retrace"} /\ execution_path.path = <<>>) =>
          (raised' # "none" /\ state' = state /\ num_cycles' = num_cycles)]_vars

C13_Witness ==
    /\ op = "trace" /\ execution_path.path = <<>>
    /\ raised = "IndexError" /\ state = <<>> /\ num_cycles = 0

\* C14: transition_constraints fails, and returns no constraints, whenever the register
\* count of the object differs from the layout nonce, current, next, max_adjacency
\* neighbour slots, stack top, call, return, initial, terminal.
C14_GeometryChecked ==
    (num_registers # 3 + max_adjacency + 5) =>
        transition_constraints_raised(num_registers, max_adjacency) # "none"

\* C15: every triple boundary_constraints returns names a row that is >= 0 and, once
\* the object has built a table, a row of that table; and a register of the object.
C15_BoundaryInRange ==
    \A k \in 1..Len(Boundary) :
        /\ 0 <= Boundary[k][1]
        /\ Returned => Boundary[k][1] < Len(state)
        /\ 0 <= Boundary[k][2] /\ Boundary[k][2] < num_registers

\* C16: the CFG holds, for every node, the successor list it had when it was loaded.
C16_CfgUnchanged == cfg = declared

\* The shadow stack before step k (1-based) of the last trace call.
StackBefore(k) == IF k = 1 THEN <<>> ELSE stacks[k - 1]

\* C19: every call step, the last step included, pushes its return target, and its row
\* carries that target as stack top and call flag 1.
C19_CallRule ==
    Returned =>
        \A k \in 1..Len(execution) :
            execution[k].type = "call" =>
                /\ stacks[k] = <<execution[k].return>> \o StackBefore(k)
                /\ Reg(Row(state, k), CallStackReg) = execution[k].return
                /\ Reg(Row(state, k), CallFlagReg) = 1

\* C20: every return step, the last step included, that finds its own node on top of
\* a non-empty shadow stack pops exactly that element and its row has return flag 1.
C20_MatchedReturnRule ==
    Returned =>
        \A k \in 1..Len(execution) :
            (/\ execution[k].type = "ret"
             /\ StackBefore(k) # <<>>
             /\ StackBefore(k)[1] = execution[k].dest) =>
                /\ stacks[k] = Tail(StackBefore(k))
                /\ Reg(Row(state, k), ReturnFlagReg) = 1

\* C18: the adjacency polynomial has total degree exactly max_adjacency + 1 and no
\* polynomial of transition_constraints has a total degree above max_adjacency + 1,
\* the degree main passes to the STARK engine.
C18_DegreeBound ==
    LET polys == air(num_registers, max_adjacency)
    IN  /\ total_degree(polys[2]) = max_adjacency + 1
        /\ \A k \in 1..3 : total_degree(polys[k]) <= transition_constraints_degree(max_adjacency)

OlcReturned == op = "prove" /\ olc_raised = "none"

\* Every polynomial of the digest encoding is zero on rows i, i+1 of the table.
OlcVanishes(t, i) ==
    \A k \in 1..4 : olc_transition_constraints(Row(t, i), Row(t, i + 1))[k] = 0

\* C17: in the digest encoding the transition constraints vanish on a row pair only if
\* the transition digest of the previous row is the digest of an edge of the CFG.
C17_DigestMembership ==
    OlcReturned =>
        \A i \in 0..(Len(olc_state) - 2) :
            OlcVanishes(olc_state, i) =>
                Reg(Row(olc_state, i), 3) \in get_list_hash_transitions(cfg)

-----------------------------------------------------------------------------
(* C21..C30.                                                               *)

\* Step k of the last trace call is a return that found the shadow stack empty.
UnmatchedReturn(k) == execution[k].type = "ret" /\ StackBefore(k) = <<>>

\* C21: a return step that finds the shadow stack empty, at any position, leaves it
\* empty and its row has return flag 1 and stack top 0; and the build returns whenever
\* the path has a step and every node the loop looks up is a CFG node, whatever
\* returns it holds.
C21_UnmatchedReturnRule ==
    /\ Returned =>
          \A k \in 1..Len(execution) :
              UnmatchedReturn(k) =>
                  /\ stacks[k] = <<>>
                  /\ Reg(Row(state, k), ReturnFlagReg) = 1
                  /\ Reg(Row(state, k), CallStackReg) = 0
    /\ (/\ op \in {"trace", "retrace"}
        /\ execution # <<>>
        /\ \A k \in 1..(Len(execution) - 1) : execution[k].dest \in DOMAIN declared)
          => raised = "none"

\* A build with an unmatched return as its last step and another one before it.
C21_Witness ==
    /\ Returned
    /\ Len(execution) >= 3
    /\ UnmatchedReturn(Len(execution))
    /\ \E k \in 1..(Len(execution) - 1) : UnmatchedReturn(k)

\* Step k is a return that found a non-empty stack whose top is not its own node.
MismatchedReturn(k) ==
    /\ execution[k].type = "ret"
    /\ StackBefore(k) # <<>>
    /\ StackBefore(k)[1] # execution[k].dest

\* C22: a start step, a jump step and a return step that finds another node on top of
\* a non-empty stack leave the shadow stack as it was; their rows have call flag 0,
\* return flag 0 and the unchanged top (0 for an empty stack) as stack top.
C22_OtherStepsKeepStack ==
    Returned =>
        \A k \in 1..Len(execution) :
            (execution[k].type \in {"start", "jmp"} \/ MismatchedReturn(k)) =>
                /\ stacks[k] = StackBefore(k)
                /\ Reg(Row(state, k), CallFlagReg) = 0
                /\ Reg(Row(state, k), ReturnFlagReg) = 0
                /\ Reg(Row(state, k), CallStackReg) = stack_top(StackBefore(k))

\* A build with a mismatched return before the last step and a jump on a non-empty
\* stack.
C22_Witness ==
    /\ Returned
    /\ \E k \in 1..(Len(execution) - 1) : MismatchedReturn(k)
    /\ \E k \in 1..Len(execution) : execution[k].type = "jmp" /\ StackBefore(k) # <<>>

\* C23: in every row from row 1 to the last row the neighbour registers hold the padded
\* successor list of the row's current node, in declared order, the last row included.
C23_NeighbourRegisters ==
    Returned =>
        \A k \in 1..Len(execution) :
            execution[k].dest \in DOMAIN declared =>
                SubSeq(Row(state, k), 4, 3 + max_adjacency)
                    = get_padded_neighbours(declared, execution[k].dest, max_adjacency)

\* C24: the register boundary_constraints pins to one in row 0, which is the register
\* transition_constraints gates with (num_registers - 1), is 1 in row 0 and 0 in every
\* other row, and every other register of row 0 is 0.
C24_InitialFlag ==
    Returned =>
        /\ InitialReg = num_registers - 1
        /\ <<0, InitialReg, 1>> \in Range(Boundary)
        /\ Reg(Row(state, 0), InitialReg) = 1
        /\ \A j \in 0..(Len(Row(state, 0)) - 1) : j # InitialReg => Reg(Row(state, 0), j) = 0
        /\ \A i \in 1..(Len(state) - 1) : Reg(Row(state, i), InitialReg) = 0

\* A build with a start node, an end node and a nonce that are not zero, with loop rows.
C24_Witness ==
    Returned /\ Len(state) >= 4 /\ start # 0 /\ end # 0 /\ nonce # 0 /\ max_adjacency > 0

\* C25: the terminal register (the one after the initial register) exists in every row
\* and is 1 in the last row and 0 in every other row.
C25_TerminalMarker ==
    Returned =>
        \A i \in 0..(Len(state) - 1) :
            /\ Len(Row(state, i)) > TerminalReg
            /\ Reg(Row(state, i), TerminalReg) = (IF i = Len(state) - 1 THEN 1 ELSE 0)

\* The built table satisfies the constraints generated for it.
ValidTrace == SatisfiesBoundary(state, Boundary) /\ SatisfiesTransitions(state)

\* C26: every row from row 1 on holds the supplied nonce, and the constraints force it:
\* a valid trace with the nonce register of one row after row 1 changed violates a
\* boundary constraint or a transition constraint.
C26_NonceForced ==
    Returned =>
        /\ \A i \in 1..(Len(state) - 1) : Reg(Row(state, i), NonceReg) = nonce
        /\ ValidTrace =>
              \A i \in 2..(Len(state) - 1) : \A v \in CorruptValues :
                  v # nonce =>
                      LET t == [state EXCEPT ![i + 1] = SetReg(Row(state, i), NonceReg, v)]
                      IN  ~(SatisfiesBoundary(t, Boundary) /\ SatisfiesTransitions(t))

\* C27: the three transition polynomials are zero on the pair (row 0, row 1) of every
\* built table, whatever the first step is.
C27_PreludeVacuous ==
    Returned =>
        transition_constraints(Row(state, 0), Row(state, 1), num_registers, max_adjacency)
            = <<0, 0, 0>>

\* A build whose row 1 has a current node and a next node other than 0.
C27_Witness ==
    /\ Returned
    /\ Reg(Row(state, 1), CurrentReg) # 0
    /\ Reg(Row(state, 1), NextReg) # 0
    /\ max_adjacency > 0

\* C28: on a path that begins with a start step, a return step that finds the shadow
\* stack empty makes the stack-consistency polynomial zero on the pair of rows ending
\* at its row exactly when its destination is node 0.
C28_UnmatchedReturnToZero ==
    (Returned /\ execution[1].type = "start") =>
        \A k \in 2..Len(execution) :
            UnmatchedReturn(k) =>
                ((stack_constraint(Row(state, k - 1), Row(state, k),
                                   num_registers, max_adjacency) = 0)
                    <=> (execution[k].dest = 0))

\* A build with an unmatched return to node 0 and one to another node, one of them as
\* the last step.
C28_Witness ==
    /\ Returned
    /\ execution[1].type = "start"
    /\ UnmatchedReturn(Len(execution))
    /\ \E k \in 2..Len(execution) : UnmatchedReturn(k) /\ execution[k].dest = 0
    /\ \E k \in 2..Len(execution) : UnmatchedReturn(k) /\ execution[k].dest # 0

\* Step j is a return that found its own node on top of a non-empty stack.
AcceptedReturn(j) ==
    /\ execution[j].type = "ret"
    /\ StackBefore(j) # <<>>
    /\ StackBefore(j)[1] = execution[j].dest

CallCount(a, b) == Cardinality({j \in a..b : execution[j].type = "call"})

AcceptedCount(a, b) == Cardinality({j \in a..b : AcceptedReturn(j)})

\* The calls among steps 1..k that no accepted return has popped: call j is popped by
\* an accepted return r when the calls and the accepted returns between them balance.
PendingCalls(k) ==
    {j \in 1..k :
        /\ execution[j].type = "call"
        /\ ~\E r \in (j + 1)..k :
               AcceptedReturn(r) /\ CallCount(j + 1, r - 1) = AcceptedCount(j + 1, r - 1)}

\* C29: after every prefix of the path the shadow stack holds the return targets of the
\* calls not popped yet, the most recent first; its depth is the number of calls minus
\* the number of accepted returns, never negative; and in every row the call flag and
\* the return flag are 0 or 1 and not both 1.
C29_StackDiscipline ==
    Returned =>
        /\ \A k \in 1..Len(execution) :
              /\ Len(stacks[k]) = Cardinality(PendingCalls(k))
              /\ \A j \in PendingCalls(k) :
                    stacks[k][1 + Cardinality({i \in PendingCalls(k) : i > j})]
                        = execution[j].return
              /\ Len(stacks[k]) = CallCount(1, k) - AcceptedCount(1, k)
              /\ CallCount(1, k) >= AcceptedCount(1, k)
        /\ \A i \in 0..(Len(state) - 1) :
              /\ Reg(Row(state, i), CallFlagReg) \in {0, 1}
              /\ Reg(Row(state, i), ReturnFlagReg) \in {0, 1}
              /\ ~(Reg(Row(state, i), CallFlagReg) = 1 /\ Reg(Row(state, i), ReturnFlagReg) = 1)

\* A build with an accepted return before the last step and a call, left pending, as
\* the last step.
C29_Witness ==
    /\ Returned
    /\ Len(execution) >= 4
    /\ \E k \in 1..(Len(execution) - 1) : AcceptedReturn(k)
    /\ execution[Len(execution)].type = "call"
    /\ Len(stacks[Len(execution)]) >= 1

\* The row a prover builds for the step in the opposite direction: current and next
\* change places and so do their digests; the transition digest is kept.
ReverseRow(row) ==
    [row EXCEPT ![2] = row[3], ![3] = row[2], ![8] = row[9], ![9] = row[8]]

\* C30: hash_trans gives the same digest for (a, b) and (b, a); the transition digest
\* of a row for a step a to b is the digest of the reverse edge, and the digest
\* polynomial digest - (hash_src + hash_dest) is zero on the row and on the row of the
\* reverse step alike.
C30_DigestSymmetric ==
    /\ \A a, b \in Mentioned(cfg) \cup {FalseNode} : hash_trans(a, b) = hash_trans(b, a)
    /\ OlcReturned =>
          \A i \in 0..(Len(olc_state) - 2) :
              LET row == Row(olc_state, i)
              IN  /\ Reg(row, 3) = hash_trans(Reg(row, 2), Reg(row, 1))
                  /\ olc_transition_constraints(row, Row(olc_state, i + 1))[2] = 0
                  /\ olc_transition_constraints(ReverseRow(row), Row(olc_state, i + 1))[2] = 0

\* A table with a row for a CFG edge whose reverse is not an edge.
C30_Witness ==
    /\ OlcReturned
    /\ \E i \in 0..(Len(olc_state) - 2) :
          LET a == Reg(Row(olc_state, i), 1)
              b == Reg(Row(olc_state, i), 2)
          IN  /\ a \in DOMAIN cfg /\ b \in Range(cfg[a])
              /\ ~(b \in DOMAIN cfg /\ a \in Range(cfg[b]))

====
